---- MODULE Spec2Model ----
(***************************************************************************)
(* A model of cs2-cdn's update pipeline (src/unnamed/part_002, the current *)
(* TypeScript script): the segment selection (getRequiredVPKFiles), the    *)
(* two fetches through the external download tool (downloadFiles), the     *)
(* concurrent extraction (dumpFiles), the renaming (renameFiles) and the   *)
(* scheduler (updateLoop / update).                                        *)
(*                                                                         *)
(* Strings.  A JavaScript string is modelled as a sequence of tokens whose *)
(* concatenation is the string.  The tokens used below form a prefix-free  *)
(* code (no token is a proper prefix of another), so String.startsWith on  *)
(* the characters is the prefix test on the token sequences, and string    *)
(* equality is equality of the sequences.  Decimal numerals are sequences  *)
(* of digits.                                                              *)
(***************************************************************************)
EXTENDS Integers, Sequences, FiniteSets, TLC

(***************************************************************************)
(* Bounds of the model.                                                    *)
(***************************************************************************)
\* the largest number of entries of a loaded index
MaxFiles == 3
\* the calls of getRequiredVPKFiles that are counted
MaxCalls == 2
\* the largest number of files of a tree that renameFiles is run on
MaxTreeFiles == 2
\* how many times renameFiles is run on a tree
MaxRuns == 2

(***************************************************************************)
(* Generic helpers for the JavaScript built-ins the script uses.           *)
(***************************************************************************)
\* A variable that holds no array yet (undefined); no array of numbers
\* equals it
Unset == <<-1>>

Range(s) == {s[i] : i \in 1..Len(s)}

\* String.prototype.startsWith
StartsWith(s, p) == Len(p) <= Len(s) /\ SubSeq(s, 1, Len(p)) = p

\* The decimal digits as characters
DigitChars == <<"0", "1", "2", "3", "4", "5", "6", "7", "8", "9">>

DigitValue(c) == CHOOSE d \in 0..9 : DigitChars[d + 1] = c

\* Number.prototype.toString (base 10) of a non-negative integer
RECURSIVE NumberToString(_)
NumberToString(n) ==
    IF n < 10 THEN <<DigitChars[n + 1]>>
    ELSE NumberToString(n \div 10) \o <<DigitChars[(n % 10) + 1]>>

\* Number.parseInt of a string of decimal digits
RECURSIVE ParseInt(_)
ParseInt(d) ==
    IF Len(d) = 1 THEN DigitValue(d[1])
    ELSE 10 * ParseInt(SubSeq(d, 1, Len(d) - 1)) + DigitValue(d[Len(d)])

\* (a comparator with its operands exchanged: (a, b) => b - a)
CompareExchanged(a, b) == b - a

\* The comparator of getRequiredVPKFiles' sort: (a, b) => a - b
Compare(a, b) == a - b

\* Array.prototype.sort with that comparator: the element x is placed before
\* the first element y of the sorted sequence with Compare(x, y) < 0 (an
\* insertion sort; every correct sort agrees with it on a consistent
\* comparator)
RECURSIVE InsertSorted(_, _)
InsertSorted(x, s) ==
    IF s = <<>> THEN <<x>>
    ELSE IF Compare(x, Head(s)) < 0 THEN <<x>> \o s
         ELSE <<Head(s)>> \o InsertSorted(x, Tail(s))

RECURSIVE ArraySort(_)
ArraySort(s) ==
    IF s = <<>> THEN <<>>
    ELSE InsertSorted(s[Len(s)], ArraySort(SubSeq(s, 1, Len(s) - 1)))

(***************************************************************************)
(* The script's tables.                                                    *)
(***************************************************************************)
ECON_PATH == <<"panorama/images/econ">>

\* Object.keys(neededDirectories), in the order of the object literal
neededDirectoriesKeys ==
    << "stickers", "patches", "graffiti", "characters", "musicKits", "cases",
       "tools", "statusIcons", "weapons", "otherWeapons", "seasonIcons",
       "premierSeasons", "tournaments", "setIcons", "keyChains" >>

Categories == Range(neededDirectoriesKeys)

neededDirectories ==
    [f \in Categories |->
        CASE f = "stickers"       -> ECON_PATH \o <<"/stickers">>
          [] f = "patches"        -> ECON_PATH \o <<"/patches">>
          [] f = "graffiti"       -> ECON_PATH \o <<"/stickers", "/default">>
          [] f = "characters"     -> ECON_PATH \o <<"/characters">>
          [] f = "musicKits"      -> ECON_PATH \o <<"/music_kits">>
          [] f = "cases"          -> ECON_PATH \o <<"/weapon_cases">>
          [] f = "tools"          -> ECON_PATH \o <<"/tools">>
          [] f = "statusIcons"    -> ECON_PATH \o <<"/status_icons">>
          [] f = "weapons"        -> ECON_PATH \o <<"/default", "_generated">>
          [] f = "otherWeapons"   -> ECON_PATH \o <<"/weapons">>
          [] f = "seasonIcons"    -> ECON_PATH \o <<"/season_icons">>
          [] f = "premierSeasons" -> ECON_PATH \o <<"/premier_seasons">>
          [] f = "tournaments"    -> ECON_PATH \o <<"/tournaments">>
          [] f = "setIcons"       -> ECON_PATH \o <<"/set_icons">>
          [] f = "keyChains"      -> ECON_PATH \o <<"/keychains">>]

\* Object.keys(neededFiles) and the object itself
neededFilesKeys == << "itemsGame" >>

neededFiles ==
    [k \in Range(neededFilesKeys) |-> <<"scripts/items/items_game.txt">>]

\* The own keys of fileLookup, filled from neededFiles at module load.  The
\* logical paths of the model are archive paths; none is the name of a
\* property that a plain object inherits.
fileLookupKeys == {neededFiles[k] : k \in Range(neededFilesKeys)}

\* fileLookup[fileName], as a truth value
fileLookup(fileName) == fileName \in fileLookupKeys

\* The tokens that hold a "/" character
SlashTokens ==
    { "panorama/images/econ", "/stickers", "/default", "/patches",
      "/characters", "/music_kits", "/weapon_cases", "/tools",
      "/status_icons", "/weapons", "/season_icons", "/premier_seasons",
      "/tournaments", "/set_icons", "/keychains",
      "scripts/items/items_game.txt", "resource/csgo_", "/a.png", "/b.png",
      "/extra" }

\* /^resource\/csgo_[^\/]+\.txt$/.test(fileName): the string starts with
\* "resource/csgo_", ends with ".txt", and what lies between is not empty
\* and holds no "/"
PatternTest(fileName) ==
    /\ Len(fileName) >= 3
    /\ fileName[1] = "resource/csgo_"
    /\ fileName[Len(fileName)] = ".txt"
    /\ \A i \in 2..(Len(fileName) - 1) : fileName[i] \notin SlashTokens

\* neededFilePatterns.some((pattern) => pattern.test(fileName)), the list
\* holding the one pattern
neededFilePatternsSome(fileName) == PatternTest(fileName)

(***************************************************************************)
(* The inputs: configurations and archive indexes.                         *)
(***************************************************************************)
\* The categories whose flags vary one by one; the flags of the others,
\* "tools" among them, are set together.
VariedCategories == {"stickers", "graffiti"}

\* DEFAULT_CONFIG's category flags (every category enabled)
DEFAULT_CONFIG == [f \in Categories |-> TRUE]

\* The category flags of a Config: Object.assign({}, DEFAULT_CONFIG, config)
Configs ==
    { c \in [Categories -> BOOLEAN] :
        \A f, g \in Categories \ VariedCategories : c[f] = c[g] }

\* The logical paths an index of the model may hold
LogicalPaths ==
    { ECON_PATH \o <<"/stickers", "/a.png">>,
      ECON_PATH \o <<"/stickers", "/default", "/b.png">>,
      ECON_PATH \o <<"/stickers", "_old", "/a.png">>,
      <<"scripts/items/items_game.txt">>,
      <<"scripts/items/items_game.txt", ".bak">>,
      <<"resource/csgo_", "english", ".txt">>,
      <<"resource/csgo_", "english", "/extra", ".txt">> }

\* The archiveIndex values of the entries: one digit and two digits
ArchiveIndexes == {2, 10}

\* vpkDir.files of a loaded index: its logical paths in insertion order,
\* each once
FileLists ==
    UNION { { fl \in [1..n -> LogicalPaths] :
                \A i, j \in 1..n : i # j => fl[i] # fl[j] } : n \in 0..MaxFiles }

\* A loaded vpk object: files, and tree[fileName].archiveIndex
Indexes ==
    UNION { { [files |-> fl, tree |-> t, loaded |-> TRUE] :
                t \in [Range(fl) -> [archiveIndex : ArchiveIndexes]] } :
            fl \in FileLists }

(***************************************************************************)
(* getRequiredVPKFiles                                                     *)
(***************************************************************************)
\* (the directories without the filter on the flags)
EnabledDirsUnfiltered(cfg, keys) ==
    [i \in 1..Len(keys) |-> neededDirectories[keys[i]]]

\* Object.keys(neededDirectories).filter((f) => !!config[f])
\*       .map((f) => neededDirectories[f])
RECURSIVE EnabledDirs(_, _)
EnabledDirs(cfg, keys) ==
    IF keys = <<>> THEN <<>>
    ELSE (IF cfg[Head(keys)] THEN <<neededDirectories[Head(keys)]>> ELSE <<>>)
         \o EnabledDirs(cfg, Tail(keys))

\* (the condition without the patterns)
IsRequiredNoPatterns(dirs, fileName) ==
    \/ \E i \in 1..Len(dirs) : StartsWith(fileName, dirs[i])
    \/ fileLookup(fileName)

\* The condition of the loop body of getRequiredVPKFiles
IsRequired(dirs, fileName) ==
    \/ \E i \in 1..Len(dirs) : StartsWith(fileName, dirs[i])
    \/ fileLookup(fileName)
    \/ neededFilePatternsSome(fileName)

\* The loop over vpkDir.files: requiredIndices as the sequence of its keys
\* (numerals) in the order they were set
RECURSIVE CollectIndices(_, _, _, _)
CollectIndices(dirs, vpk, i, requiredIndices) ==
    IF i > Len(vpk.files) THEN requiredIndices
    ELSE LET fileName == vpk.files[i]
             key == NumberToString(vpk.tree[fileName].archiveIndex)
         IN  CollectIndices(dirs, vpk, i + 1,
                 IF IsRequired(dirs, fileName) /\ key \notin Range(requiredIndices)
                 THEN Append(requiredIndices, key)
                 ELSE requiredIndices)

\* A sequence of pairwise different elements without its element m
RECURSIVE Without(_, _)
Without(s, m) ==
    IF s = <<>> THEN <<>>
    ELSE IF Head(s) = m THEN Tail(s) ELSE <<Head(s)>> \o Without(Tail(s), m)

\* Object.keys of an object whose keys are all integer indexes: ascending
\* numeric order, whatever the order of insertion
RECURSIVE ObjectKeys(_)
ObjectKeys(keys) ==
    IF keys = <<>> THEN <<>>
    ELSE LET m == CHOOSE k \in Range(keys) :
                    \A l \in Range(keys) : ParseInt(k) <= ParseInt(l)
         IN  <<m>> \o ObjectKeys(Without(keys, m))

\* .map((i) => Number.parseInt(i))
MapParseInt(keys) == [i \in 1..Len(keys) |-> ParseInt(keys[i])]

\* (the ids in the order in which the loop met them, an array in place of
\* the object and no sort)
getRequiredVPKFilesInsertionOrder(cfg, vpk) ==
    MapParseInt(CollectIndices(EnabledDirs(cfg, neededDirectoriesKeys), vpk, 1, <<>>))

getRequiredVPKFiles(cfg, vpk) ==
    LET dirs == EnabledDirs(cfg, neededDirectoriesKeys)
        requiredIndices == CollectIndices(dirs, vpk, 1, <<>>)
    IN  ArraySort(MapParseInt(ObjectKeys(requiredIndices)))

(***************************************************************************)
(* renameFiles: the directory tree and the names of its files.  A file     *)
(* name is a sequence of the tokens "a", "_png" and ".png", a path is a    *)
(* sequence of directory names, "/" and the tokens of a file name.  No     *)
(* token is a proper suffix of another, so String.endsWith on the          *)
(* characters is the suffix test on the token sequences.  The tree is a    *)
(* function from the paths of its files to what they hold; a file holds    *)
(* the path it had when the tree was made.                                 *)
(***************************************************************************)
\* The directories of the tree: config.directory and one below it
Directories == { <<"data">>, <<"data", "/", "sub">> }

\* The file names of the tree: "a.png", "a_png.png", "a_png_png.png" and
\* "_png.png"
FileNames ==
    { <<"a", ".png">>, <<"a", "_png", ".png">>,
      <<"a", "_png", "_png", ".png">>, <<"_png", ".png">> }

\* "_png.png"
Marker == <<"_png", ".png">>

\* String.prototype.endsWith
EndsWith(s, p) ==
    Len(p) <= Len(s) /\ SubSeq(s, Len(s) - Len(p) + 1, Len(s)) = p

\* path.join(parentPath, name), both without "." and ".." segments
Join(parentPath, name) == parentPath \o <<"/">> \o name

\* The index of the last "/" of a path that holds one
LastSlash(path) ==
    CHOOSE i \in 1..Len(path) :
        path[i] = "/" /\ \A j \in (i + 1)..Len(path) : path[j] # "/"

\* path.dirname of a path that holds a "/" and does not end in one
Dirname(path) == SubSeq(path, 1, LastSlash(path) - 1)

\* path.basename(name, suffix) of a name without "/": the name without the
\* suffix, the empty string when the name is the suffix
Basename(name, suffix) ==
    IF suffix = name THEN <<>>
    ELSE IF EndsWith(name, suffix) THEN SubSeq(name, 1, Len(name) - Len(suffix))
         ELSE name

\* (the test without the marker: every file is taken)
IsMarkedFileAnyName(file) == file.isFile

\* file.isFile() && file.name.endsWith("_png.png")
IsMarkedFile(file) == file.isFile /\ EndsWith(file.name, Marker)

\* join(file.parentPath, file.name)
OldPath(file) == Join(file.parentPath, file.name)

\* `${basename(file.name, "_png.png")}.png`
NewName(file) == Basename(file.name, Marker) \o <<".png">>

\* join(dirname(oldPath), newName)
NewPath(file) == Join(Dirname(OldPath(file)), NewName(file))

\* The files a tree may hold
TreePaths == { Join(d, n) : d \in Directories, n \in FileNames }

\* A tree as it is before renameFiles runs: every file holds its own path
TreeOf(paths) == [p \in paths |-> p]

\* fs.rename(oldPath, newPath) on files: the file takes the new path, and
\* what was at the new path is replaced
Rename(t, oldPath, newPath) ==
    [p \in (DOMAIN t \ {oldPath}) \cup {newPath} |->
        IF p = newPath THEN t[oldPath] ELSE t[p]]

\* fs.rename rejects when there is no file at oldPath (ENOENT)
RenameRejects(t, oldPath) == oldPath \notin DOMAIN t

\* The Dirent of a file, and of the directory below config.directory
FileDirent(path) ==
    [parentPath |-> Dirname(path),
     name |-> SubSeq(path, LastSlash(path) + 1, Len(path)),
     isFile |-> TRUE]

SubDirent == [parentPath |-> <<"data">>, name |-> <<"sub">>, isFile |-> FALSE]

\* What readdir(directory, {withFileTypes: true, recursive: true}) lists:
\* the files, and the directory "sub" when it holds one
Dirents(t) ==
    { FileDirent(p) : p \in DOMAIN t }
        \cup (IF \E p \in DOMAIN t : Dirname(p) = <<"data", "/", "sub">>
              THEN {SubDirent} ELSE {})

\* The listings readdir may resolve to: the entries in any order
Listings(t) ==
    LET entries == Dirents(t)
        n == Cardinality(entries)
    IN  { l \in [1..n -> entries] : \A i, j \in 1..n : i # j => l[i] # l[j] }

\* The for loop from entry i on: the index of the first entry whose rename
\* is awaited, Len(l) + 1 when the loop has run to its end
RECURSIVE NextMarked(_, _)
NextMarked(l, i) ==
    IF i > Len(l) THEN Len(l) + 1
    ELSE IF IsMarkedFile(l[i]) THEN i ELSE NextMarked(l, i + 1)

(***************************************************************************)
(* State.                                                                  *)
(***************************************************************************)
VARIABLES
    config,         \* this.config: the category flags
    updateInterval, \* this.config.updateInterval
    vpkDir,         \* this.vpkDir
    required,       \* what the last call of getRequiredVPKFiles returned
    calls,          \* the number of calls of getRequiredVPKFiles so far
    pc,             \* where the process is: the pending await, or its end
    tools,          \* which tool binaries exist in the data directory
    manifest,       \* the file <directory>/<fileList>-<pid>
    invocations,    \* the manifests the download tool was invoked with
    events,         \* the stages of the cycle, as they started and ended
    failure,        \* why update() rejected
    pathsToDump,    \* dumpFiles: the paths handed to the extraction tool
    outcomes,       \* dumpFiles: how each extraction invocation ended
    results,        \* dumpFiles: what each invocation's promise resolved to
    report,         \* dumpFiles: the counts and the failures it logs
    dumpLog,        \* dumpFiles: what each invocation's callback logged
    renamed,        \* renameFiles: the files renamed so far
    tree,           \* the files below config.directory and what they hold
    before,         \* the tree when the running renameFiles was called
    afterFirst,     \* the tree when the first renameFiles returned
    listing,        \* renameFiles: what readdir resolved to
    pos,            \* renameFiles: the entry of the listing the loop is at
    runs,           \* how many times renameFiles has returned
    renameFailed,   \* renameFiles: readdir or a rename has rejected
    started,        \* how many times update() has been called
    settled,        \* how many of the promises of update() have settled
    timer,          \* updateLoop: the timer of setTimeout
    loadAttempt,    \* updateLoop: how the load of the stored index ended
    responses,      \* the answers to the requests of getBinary so far
    manifestOps,    \* what was done with the manifest file, in order
    host,           \* what os.platform() and os.arch() return
    platform,       \* getBinary: what getPlatform() returned
    toolOps         \* getBinary: the archives unpacked and files chmod-ed

selVars == <<config, updateInterval, vpkDir, required, calls>>
dumpVars == <<pathsToDump, outcomes, results, report, dumpLog>>
renameVars == <<renamed, tree, before, afterFirst, listing, pos, runs,
                renameFailed>>
schedVars == <<started, settled, timer, loadAttempt>>
logVars == <<responses, manifestOps>>
hostVars == <<host, platform, toolOps>>
vars == <<config, updateInterval, vpkDir, required, calls, pc, tools, manifest,
          invocations, events, failure, pathsToDump, outcomes, results, report,
          dumpLog, renamed, tree, before, afterFirst, listing, pos, runs,
          renameFailed, started, settled, timer, loadAttempt, responses,
          manifestOps, host, platform, toolOps>>

\* What os.platform() and os.arch() may return on a host
Platforms == {"win32", "darwin", "linux", "freebsd"}
Architectures == {"x64", "arm64", "arm", "ia32"}
Hosts == [platform : Platforms, arch : Architectures]

\* The host of the image and of the workflow: Linux on x64
BuildHost == [platform |-> "linux", arch |-> "x64"]

\* getPlatform: switch (platform)
OsName(p) ==
    CASE p = "win32" -> "windows"
      [] p = "darwin" -> "macos"
      [] p = "linux" -> "linux"
      [] OTHER -> "unknown"

\* getPlatform: switch (architecture)
ArchName(a) ==
    CASE a = "x64" -> "x64"
      [] a = "arm64" -> "arm64"
      [] a = "arm" -> "arm"
      [] OTHER -> "unknown"

\* (both names unknown as soon as one of them is)
getPlatformAllOrNothing(h) ==
    IF OsName(h.platform) = "unknown" \/ ArchName(h.arch) = "unknown"
    THEN <<"unknown", "-", "unknown">>
    ELSE <<OsName(h.platform), "-", ArchName(h.arch)>>

\* getPlatform: `${osName}-${archName}`
getPlatform(h) == <<OsName(h.platform), "-", ArchName(h.arch)>>

\* getBinary: platform === "win32", of what getPlatform returned
SkipsChmod(p) == p = <<"win32">>

\* getBinary: afterExtractionName ? afterExtractionName : binaryName, for
\* downloadVRF ("cli", "Source2Viewer-CLI") and downloadDepotDownloader
fileToMarkAsExec(binaryName) ==
    IF binaryName = "cli" THEN "Source2Viewer-CLI" ELSE binaryName

\* this.vpkDir before the first load
NoVpk == [files |-> <<>>, tree |-> <<>>, loaded |-> FALSE]

\* The manifest file when it does not exist, and when it holds lines
NoManifest == [exists |-> FALSE, lines |-> <<>>]
Written(lines) == [exists |-> TRUE, lines |-> lines]

\* dumpFiles has not logged its counts
NoReport == [logged |-> FALSE, failed |-> <<>>, succeeded |-> 0, total |-> 0]

\* The state of everything but the inputs when the constructor has run
Constructed ==
    /\ platform = Unset
    /\ toolOps = <<>>
    /\ required = Unset
    /\ calls = 0
    /\ pc = "constructed"
    /\ manifest = NoManifest
    /\ invocations = <<>>
    /\ events = <<>>
    /\ failure = "none"
    /\ pathsToDump = <<>>
    /\ outcomes = <<>>
    /\ results = <<>>
    /\ report = NoReport
    /\ dumpLog = <<>>
    /\ renamed = 0
    /\ tree = TreeOf({})
    /\ before = TreeOf({})
    /\ afterFirst = TreeOf({})
    /\ listing = <<>>
    /\ pos = 0
    /\ runs = 0
    /\ renameFailed = FALSE
    /\ started = 0
    /\ settled = 0
    /\ timer = "none"
    /\ loadAttempt = "none"
    /\ responses = <<>>
    /\ manifestOps = <<>>

(***************************************************************************)
(* The selection on its own: an index is loaded, getRequiredVPKFiles is    *)
(* called again and again, and the same entries are loaded again in        *)
(* another insertion order.                                                *)
(***************************************************************************)
SelInit ==
    /\ host = BuildHost
    /\ config \in Configs
    /\ updateInterval = 0
    /\ vpkDir \in Indexes
    /\ tools = [s2v |-> TRUE, dd |-> TRUE]
    /\ Constructed

SelGetRequired ==
    /\ UNCHANGED hostVars
    /\ required' = getRequiredVPKFiles(config, vpkDir)
    /\ calls' = IF calls < MaxCalls THEN calls + 1 ELSE calls
    /\ UNCHANGED <<config, updateInterval, vpkDir, pc, tools, manifest,
                   invocations, events, failure, dumpVars, renameVars,
                   schedVars, logVars>>

(***************************************************************************)
(* The JavaScript variant of the program (index.js): its tables and its    *)
(* getRequiredVPKFiles.                                                     *)
(***************************************************************************)
\* Object.keys(neededDirectories) of index.js, in the order of the literal
neededDirectoriesKeysJs ==
    <<"stickers", "patches", "graffiti", "characters", "musicKits", "cases",
      "tools", "statusIcons", "weapons", "otherWeapons", "seasonIcons",
      "setIcons">>

\* neededFiles of index.js: itemsGame and csgoEnglish
neededFilesJs ==
    { <<"scripts/items/items_game.txt">>,
      <<"resource/csgo_", "english", ".txt">> }

\* fileLookup[fileName] of index.js: 1 for each of neededFiles
fileLookupJs(fileName) == fileName \in neededFilesJs

\* .filter((f) => !!this.config[f]).map((f) => neededDirectories[f])
RECURSIVE EnabledDirsJs(_, _)
EnabledDirsJs(cfg, keys) ==
    IF keys = <<>> THEN <<>>
    ELSE (IF cfg[Head(keys)] THEN <<neededDirectories[Head(keys)]>> ELSE <<>>)
         \o EnabledDirsJs(cfg, Tail(keys))

\* The condition of the loop body of index.js's getRequiredVPKFiles
IsRequiredJs(dirs, fileName) ==
    \/ \E i \in 1..Len(dirs) : StartsWith(fileName, dirs[i])
    \/ fileLookupJs(fileName)

\* The loop over vpkDir.files of index.js
RECURSIVE CollectIndicesJs(_, _, _, _)
CollectIndicesJs(dirs, vpk, i, requiredIndices) ==
    IF i > Len(vpk.files) THEN requiredIndices
    ELSE LET fileName == vpk.files[i]
             key == NumberToString(vpk.tree[fileName].archiveIndex)
         IN  CollectIndicesJs(dirs, vpk, i + 1,
                 IF IsRequiredJs(dirs, fileName) /\ key \notin Range(requiredIndices)
                 THEN Append(requiredIndices, key)
                 ELSE requiredIndices)

\* The comparator of index.js's sort: (a, b) => a < b, a boolean
CompareJs(a, b) == a < b

\* ToNumber of what the comparator returned: true is 1 and false is 0
ToNumber(b) == IF b THEN 1 ELSE 0

\* With a comparator that is not consistent (this one is never negative)
\* the order Array.prototype.sort leaves is implementation-defined.  Two
\* insertion steps of engines, both of which sort under a consistent
\* comparator: "before" places x before the first y with comparefn(x, y) < 0
\* (binary insertion of V8's TimSort); "after" moves x to the left past
\* each y with comparefn(y, x) > 0 (the insertion sort of V8 before 7.0)
SortImplementations == {"before", "after"}

RECURSIVE InsertJs(_, _, _)
InsertJs(impl, x, s) ==
    IF s = <<>> THEN <<x>>
    ELSE IF impl = "before"
    THEN IF ToNumber(CompareJs(x, Head(s))) < 0 THEN <<x>> \o s
         ELSE <<Head(s)>> \o InsertJs(impl, x, Tail(s))
    ELSE IF ToNumber(CompareJs(s[Len(s)], x)) > 0
         THEN Append(InsertJs(impl, x, SubSeq(s, 1, Len(s) - 1)), s[Len(s)])
         ELSE Append(s, x)

\* .sort((a, b) => a < b): the elements are inserted one after the other
RECURSIVE ArraySortJs(_, _, _)
ArraySortJs(impl, s, sorted) ==
    IF s = <<>> THEN sorted
    ELSE ArraySortJs(impl, Tail(s), InsertJs(impl, Head(s), sorted))

\* getRequiredVPKFiles of index.js, on an engine with the sort impl
getRequiredVPKFilesJs(cfg, vpk, impl) ==
    ArraySortJs(impl,
        MapParseInt(ObjectKeys(
            CollectIndicesJs(EnabledDirsJs(cfg, neededDirectoriesKeysJs),
                             vpk, 1, <<>>))),
        <<>>)

\* A call of index.js's getRequiredVPKFiles
JsGetRequired ==
    /\ UNCHANGED hostVars
    /\ \E impl \in SortImplementations :
          required' = getRequiredVPKFilesJs(config, vpkDir, impl)
    /\ calls' = IF calls < MaxCalls THEN calls + 1 ELSE calls
    /\ UNCHANGED <<config, updateInterval, vpkDir, pc, tools, manifest,
                   invocations, events, failure, dumpVars, renameVars,
                   schedVars, logVars>>

\* The sequence s with its elements i and i + 1 exchanged
SwapAt(s, i) ==
    [k \in 1..Len(s) |-> IF k = i THEN s[i + 1] ELSE IF k = i + 1 THEN s[i] ELSE s[k]]

\* vpkDir.load() of an index file that holds the same entries in another
\* order: two neighbours change places (every order is reached by such steps)
SelReload ==
    /\ UNCHANGED hostVars
    /\ \E i \in 1..(Len(vpkDir.files) - 1) :
          vpkDir' = [vpkDir EXCEPT !.files = SwapAt(vpkDir.files, i)]
    /\ UNCHANGED <<config, updateInterval, required, calls, pc, tools, manifest,
                   invocations, events, failure, dumpVars, renameVars,
                   schedVars, logVars>>

SelNext == SelGetRequired \/ SelReload

SelSpec == SelInit /\ [][SelNext]_vars

JsNext == JsGetRequired \/ SelReload

JsSpec == SelInit /\ [][JsNext]_vars

(***************************************************************************)
(* The selection's claims.                                                 *)
(***************************************************************************)
\* The always-required fixed paths, and the paths of LogicalPaths that the
\* always-required pattern ^resource/csgo_[^/]+\.txt$ matches, written out
AlwaysRequiredPaths == { <<"scripts/items/items_game.txt">> }
AlwaysRequiredMatches == { <<"resource/csgo_", "english", ".txt">> }

InEnabledCategory(p) ==
    \E f \in Categories : config[f] /\ StartsWith(p, neededDirectories[f])

AlwaysRequired(p) == p \in AlwaysRequiredPaths \/ p \in AlwaysRequiredMatches

MatchingEntries ==
    { p \in Range(vpkDir.files) : InEnabledCategory(p) \/ AlwaysRequired(p) }

SegmentOf(p) == vpkDir.tree[p].archiveIndex

AllDisabled == \A f \in Categories : ~config[f]

\* C1: what getRequiredVPKFiles returns holds exactly the segment ids of the
\* entries whose path starts with the directory of an enabled category, is
\* an always-required fixed path or matches the always-required pattern:
\* none is missing and no other segment is included.
C1_ExactSegments ==
    required # Unset => Range(required) = { SegmentOf(p) : p \in MatchingEntries }

\* C1's case: a matching entry and, in another segment, only entries that
\* match nothing
C1_Witness ==
    /\ required = <<10>>
    /\ \E p \in Range(vpkDir.files) : SegmentOf(p) = 2
    /\ \E p \in MatchingEntries : TRUE

\* C2: the returned sequence is strictly ascending, so each segment id
\* appears once.
C2_StrictlyAscending ==
    required # Unset =>
        \A i, j \in 1..Len(required) : i < j => required[i] < required[j]

\* C2's case: two matching entries share a segment, one of them lies under
\* two enabled categories, and the larger segment id was inserted first
C2_Witness ==
    /\ required = <<2, 10>>
    /\ Len(vpkDir.files) = 3
    /\ SegmentOf(vpkDir.files[1]) = 10
    /\ SegmentOf(vpkDir.files[2]) = 10
    /\ config["stickers"] /\ config["graffiti"]
    /\ StartsWith(vpkDir.files[2], neededDirectories["graffiti"])
    /\ Range(vpkDir.files) = MatchingEntries

\* C3: a call of getRequiredVPKFiles returns what the call before it
\* returned, for the same configuration and the same entries in whatever
\* insertion order: no step changes the value once it is there.
C3_Deterministic == [][required # Unset => required' = required]_vars

\* C3's case: a second call, on an index whose matching entries were
\* inserted with the larger segment id first
C3_Witness ==
    /\ calls = 2
    /\ required = <<2, 10>>
    /\ SegmentOf(vpkDir.files[1]) = 10
    /\ vpkDir.files[1] \in MatchingEntries

\* C4: with every category disabled the result is empty exactly when no
\* entry is an always-required path or matches the always-required pattern.
C4_AllDisabled ==
    (required # Unset /\ AllDisabled) =>
        (required = <<>> <=> ~ \E p \in Range(vpkDir.files) : AlwaysRequired(p))

\* C4's case: no category is enabled, the index holds a sticker, and the
\* result is not empty
C4_Witness ==
    /\ AllDisabled
    /\ required # Unset /\ required # <<>>
    /\ \E p \in Range(vpkDir.files) : StartsWith(p, neededDirectories["stickers"])

(***************************************************************************)
(* The process: updateLoop, update and what update awaits.  An action is   *)
(* one callback of the event loop together with the code that runs after   *)
(* the await it settles, up to the next await.                             *)
(***************************************************************************)
\* The configured intervals: one-shot, and DEFAULT_CONFIG's
UpdateIntervals == {0, 30000}

\* The configurations of a run: some of the varied categories, none other
PipelineConfigs ==
    { c \in Configs : \A f \in Categories \ VariedCategories : ~c[f] }

\* The index files the download tool may fetch
PipelineIndexes ==
    { [files |-> <<>>, tree |-> <<>>, loaded |-> TRUE],
      [files |-> << ECON_PATH \o <<"/stickers", "/default", "/b.png">>,
                    <<"scripts/items/items_game.txt">>,
                    <<"resource/csgo_", "english", ".txt">> >>,
       tree |-> [p \in { ECON_PATH \o <<"/stickers", "/default", "/b.png">>,
                         <<"scripts/items/items_game.txt">>,
                         <<"resource/csgo_", "english", ".txt">> } |->
                    [archiveIndex |->
                        IF p = <<"scripts/items/items_game.txt">> THEN 2 ELSE 10]],
       loaded |-> TRUE],
      [files |-> << <<"scripts/items/items_game.txt">> >>,
       tree |-> [p \in { <<"scripts/items/items_game.txt">> } |->
                    [archiveIndex |-> 32767]],
       loaded |-> TRUE],
      [files |-> << <<"scripts/items/items_game.txt">> >>,
       tree |-> [p \in { <<"scripts/items/items_game.txt">> } |->
                    [archiveIndex |-> 100]],
       loaded |-> TRUE] }

\* The status codes of the release feed and of the asset download
TagStatuses == {200, 404}
AssetStatuses == {200, 302, 404}

\* A promise is settled by the first resolve() or reject() that reaches it
Settle(promise, outcome) == IF promise = "pending" THEN outcome ELSE promise

\* (the callback with resolve() before the test of error)
downloadFilesResolveFirst(error) ==
    LET first == Settle("pending", "fulfilled")
    IN  IF error THEN Settle(first, "rejected") ELSE first

\* (downloadFiles without its resolve(): only an error settles the promise)
downloadFilesRejectOnly(error) ==
    IF error THEN Settle("pending", "rejected") ELSE "pending"

\* downloadFiles: the promise after exec's callback, which calls reject()
\* when exec reports an error and then resolve() in every case
downloadFilesCallback(error) ==
    LET first == IF error THEN Settle("pending", "rejected") ELSE "pending"
    IN  Settle(first, "fulfilled")

\* The manifest of the index fetch: "game\\csgo\\pak01_dir.vpk"
IndexManifest == << <<"game\\csgo\\", "pak01_dir.vpk">> >>

\* "0".repeat(count), for count >= 0
RECURSIVE Repeat0(_)
Repeat0(count) == IF count = 0 THEN <<>> ELSE <<"0">> \o Repeat0(count - 1)

\* "0".repeat(3 - archiveIndex.toString().length) throws a RangeError when
\* the count is negative
PaddingThrows(index) == 3 - Len(NumberToString(index)) < 0

\* (the file name without the padding)
SegmentFileNameUnpadded(index) ==
    <<"game\\csgo\\", "pak01_">> \o NumberToString(index) \o <<".vpk">>

\* `game\\csgo\\pak01_${paddedIndex}.vpk`
SegmentFileName(index) ==
    <<"game\\csgo\\", "pak01_">>
        \o Repeat0(3 - Len(NumberToString(index))) \o NumberToString(index)
        \o <<".vpk">>

\* filesToDownload.map((f) => f.fileName), one line per required index
SegmentManifest(requiredIndices) ==
    [i \in 1..Len(requiredIndices) |-> SegmentFileName(requiredIndices[i])]

\* (the file is written after the tool has been started)
InvokeThenWrite == <<"invoke", "write">>

\* writeFileSync(manifest) and then await this.downloadFiles(): the file is
\* written, and the download tool is started on it
WriteThenInvoke == <<"write", "invoke">>

\* update() up to its first await, the tools being there: the manifest of
\* the index is written and the download tool started
BeginIndexFetch ==
    /\ manifest' = Written(IndexManifest)
    /\ invocations' = Append(invocations, IndexManifest)
    /\ manifestOps' = manifestOps \o WriteThenInvoke
    /\ events' = Append(events, "fetchIndex")
    /\ pc' = "fetchIndex"
    /\ UNCHANGED <<failure, settled, timer>>

\* update() from its start, for the tools t: a missing tool is downloaded
\* first
UpdateBegin(t) ==
    IF ~t.s2v
    THEN pc' = "vrfTag"
         /\ UNCHANGED <<manifest, invocations, manifestOps, events, failure,
                        settled, timer>>
    ELSE IF ~t.dd
         THEN pc' = "ddTag"
              /\ UNCHANGED <<manifest, invocations, manifestOps, events,
                             failure, settled, timer>>
         ELSE BeginIndexFetch

\* (a callback that is called however update() settles: .finally)
FinallyArmsTimer(settlement) == "armed"

\* this.update().then(() => { setTimeout(...) }): the timer once update()
\* has settled; the callback is called when update() is fulfilled, and a
\* rejection finds no handler
ThenArmsTimer(settlement) ==
    IF settlement = "fulfilled" THEN "armed" ELSE "none"

\* update() rejects; in recurring mode updateLoop has chained its then
Reject(reason) ==
    /\ pc' = "failed"
    /\ failure' = reason
    /\ settled' = settled + 1
    /\ timer' = IF updateInterval > 0 THEN ThenArmsTimer("rejected") ELSE timer

\* update() awaits a promise that no callback is left to settle
AwaitsForever ==
    /\ pc' = "awaiting"
    /\ UNCHANGED <<failure, settled, timer>>

\* (updateLoop without its else: the load is tried in recurring mode, too)
UpdateCallsNoElse(interval, loadThrows) ==
    (IF interval > 0 THEN 1 ELSE 0) + (IF loadThrows THEN 1 ELSE 0)

\* (updateLoop calls update() whether or not the load has thrown)
UpdateCallsAlways(interval, loadThrows) == 1

\* updateLoop: how many times it calls update(): once in recurring mode;
\* in one-shot mode once when the load of the stored index throws
UpdateCalls(interval, loadThrows) ==
    IF interval > 0 THEN 1 ELSE IF loadThrows THEN 1 ELSE 0

\* The constructor's call of updateLoop.  In one-shot mode the stored index
\* is loaded, or the load throws.
updateLoop ==
    /\ UNCHANGED hostVars
    /\ pc = "constructed"
    /\ \E loadThrows \in BOOLEAN : \E idx \in PipelineIndexes :
          /\ started' = started + UpdateCalls(updateInterval, loadThrows)
          /\ IF updateInterval > 0
             THEN UNCHANGED <<vpkDir, loadAttempt>>
             ELSE /\ vpkDir' = IF loadThrows THEN NoVpk ELSE idx
                  /\ loadAttempt' = IF loadThrows THEN "threw" ELSE "loaded"
          /\ IF UpdateCalls(updateInterval, loadThrows) > 0
             THEN UpdateBegin(tools)
             ELSE pc' = "loaded"
                  /\ UNCHANGED <<manifest, invocations, manifestOps, events,
                                 failure, settled, timer>>
    /\ UNCHANGED <<config, updateInterval, required, calls, tools, dumpVars,
                   renameVars, responses>>

\* (no status of the asset download is taken for a failure)
BinaryStatusNeverFails(statusCode) == FALSE

\* getLatestGitTag: latestTag.statusCode !== 200
TagStatusFails(statusCode) == statusCode # 200

\* getBinary: binary.statusCode !== 200 && binary.statusCode !== 302
BinaryStatusFails(statusCode) == statusCode # 200 /\ statusCode # 302

\* getLatestGitTag: the release feed answers
TagResponse ==
    /\ pc \in {"vrfTag", "ddTag"}
    /\ \E statusCode \in TagStatuses :
          /\ responses' = Append(responses, [request |-> "tag", statusCode |-> statusCode])
          /\ IF TagStatusFails(statusCode)
             THEN Reject("ToolResolutionFailed")
             ELSE pc' = (IF pc = "vrfTag" THEN "vrfAsset" ELSE "ddAsset")
                  /\ UNCHANGED <<failure, settled, timer>>
          /\ platform' = IF TagStatusFails(statusCode) THEN platform
                         ELSE getPlatform(host)
    /\ UNCHANGED <<selVars, tools, manifest, invocations, manifestOps, events,
                   dumpVars, renameVars, started, loadAttempt, host, toolOps>>

\* getBinary: the asset download answers; the archive is unpacked and the
\* tool marked executable, either of which may throw
AssetResponse ==
    /\ pc \in {"vrfAsset", "ddAsset"}
    /\ \E statusCode \in AssetStatuses, rawBody \in BOOLEAN, unpacked \in BOOLEAN,
          chmodThrows \in BOOLEAN :
          LET binaryName == IF pc = "vrfAsset" THEN "cli" ELSE "DepotDownloader"
              extract == [op |-> "extractAllTo", file |-> binaryName]
              chmod == [op |-> "chmodSync", file |-> fileToMarkAsExec(binaryName)]
              skipped == SkipsChmod(platform)
          IN
          /\ responses' = Append(responses, [request |-> "asset", statusCode |-> statusCode])
          /\ IF BinaryStatusFails(statusCode)
             THEN Reject("ToolDownloadFailed")
                  /\ UNCHANGED <<tools, manifest, invocations, manifestOps, events,
                                 toolOps>>
             ELSE IF ~rawBody
             THEN Reject("EmptyBody")
                  /\ UNCHANGED <<tools, manifest, invocations, manifestOps, events,
                                 toolOps>>
             ELSE IF ~unpacked
             THEN Reject("UnpackFailed")
                  /\ UNCHANGED <<tools, manifest, invocations, manifestOps, events,
                                 toolOps>>
             ELSE IF ~skipped /\ chmodThrows
             THEN Reject("ChmodFailed")
                  /\ toolOps' = toolOps \o <<extract, chmod>>
                  /\ UNCHANGED <<tools, manifest, invocations, manifestOps, events>>
             ELSE LET t == IF pc = "vrfAsset" THEN [tools EXCEPT !.s2v = TRUE]
                           ELSE [tools EXCEPT !.dd = TRUE]
                  IN  /\ tools' = t
                      /\ toolOps' = toolOps \o
                            (IF skipped THEN <<extract>> ELSE <<extract, chmod>>)
                      /\ IF pc = "vrfAsset" /\ ~t.dd
                         THEN pc' = "ddTag"
                              /\ UNCHANGED <<manifest, invocations, manifestOps,
                                             events, failure, settled, timer>>
                         ELSE BeginIndexFetch
    /\ UNCHANGED <<selVars, dumpVars, renameVars, started, loadAttempt, host,
                   platform>>

\* What exec hands to its callback: the exit code (error is set when it
\* is not 0) and the length of stderr
ExecOutcomes == [code : {0, 1}, stderrLen : {0, 1200}]

NotRun == [code |-> -1, stderrLen |-> 0]

Min(a, b) == IF a < b THEN a ELSE b

\* error.message of a failed exec: "Command failed: <command>\n<stderr>"
ErrorMessage(path, outcome) ==
    [text |-> "Command failed", path |-> path, stderrLen |-> outcome.stderrLen]

NoError == [text |-> "", path |-> <<>>, stderrLen |-> 0]

Pending == [state |-> "pending", path |-> <<>>, success |-> FALSE, error |-> NoError]

\* (a callback that takes error stream output for a failure, too)
ExecDumpCallbackStderrFails(path, outcome) ==
    IF outcome.code # 0 \/ outcome.stderrLen > 0
    THEN [state |-> "done", path |-> path, success |-> FALSE,
          error |-> ErrorMessage(path, outcome)]
    ELSE [state |-> "done", path |-> path, success |-> TRUE, error |-> NoError]

\* (a callback that resolves with success whatever exec reported)
ExecDumpCallbackIgnoresError(path, outcome) ==
    [state |-> "done", path |-> path, success |-> TRUE, error |-> NoError]

\* dumpFiles: what exec's callback resolves the invocation's promise to
ExecDumpCallback(path, outcome) ==
    IF outcome.code # 0
    THEN [state |-> "done", path |-> path, success |-> FALSE,
          error |-> ErrorMessage(path, outcome)]
    ELSE [state |-> "done", path |-> path, success |-> TRUE, error |-> NoError]

\* dumpFiles: what exec's callback logs, stderr cut by slice
ExecDumpLog(path, outcome) ==
    IF outcome.code # 0
    THEN [level |-> "error", path |-> path,
          stderrLen |-> Min(outcome.stderrLen, 1000)]
    ELSE IF outcome.stderrLen > 0
    THEN [level |-> "warn", path |-> path,
          stderrLen |-> Min(outcome.stderrLen, 500)]
    ELSE [level |-> "debug", path |-> path, stderrLen |-> 0]

NoLog == [level |-> "none", path |-> <<>>, stderrLen |-> 0]

\* (the directories of all categories, whatever the flags)
DumpDirsUnfiltered(cfg, keys) ==
    [i \in 1..Len(keys) |-> neededDirectories[keys[i]]]

\* Object.keys(neededDirectories).filter((f) => config[f] === true)
\*       .map((f) => neededDirectories[f])
RECURSIVE DumpDirs(_, _)
DumpDirs(cfg, keys) ==
    IF keys = <<>> THEN <<>>
    ELSE (IF cfg[Head(keys)] = TRUE THEN <<neededDirectories[Head(keys)]>> ELSE <<>>)
         \o DumpDirs(cfg, Tail(keys))

\* Object.keys(neededFiles).map((f) => neededFiles[f])
NeededFilePaths == [i \in 1..Len(neededFilesKeys) |-> neededFiles[neededFilesKeys[i]]]

\* dumpFiles: the files of the index that a pattern matches
RECURSIVE PatternMatchedFiles(_)
PatternMatchedFiles(files) ==
    IF files = <<>> THEN <<>>
    ELSE (IF neededFilePatternsSome(Head(files)) THEN <<Head(files)>> ELSE <<>>)
         \o PatternMatchedFiles(Tail(files))

PathsToDump(cfg, vpk) ==
    DumpDirs(cfg, neededDirectoriesKeys) \o NeededFilePaths
        \o PatternMatchedFiles(vpk.files)

\* (a combinator that is fulfilled as soon as one promise is: Promise.race)
PromiseFirstResolved(promises) ==
    \E i \in 1..Len(promises) : promises[i].state = "done"

\* Promise.all over promises that never reject: fulfilled when all are
PromiseAllResolved(promises) ==
    \A i \in 1..Len(promises) : promises[i].state = "done"

\* results.filter((r) => !r.success)
RECURSIVE FailedResults(_)
FailedResults(rs) ==
    IF rs = <<>> THEN <<>>
    ELSE (IF ~Head(rs).success THEN <<Head(rs)>> ELSE <<>>)
         \o FailedResults(Tail(rs))

\* dumpFiles after Promise.all: the failures and the counts it logs
ReportOf(rs) ==
    [logged |-> TRUE,
     failed |-> [i \in 1..Len(FailedResults(rs)) |->
                    [path |-> FailedResults(rs)[i].path,
                     error |-> FailedResults(rs)[i].error]],
     succeeded |-> Len(rs) - Len(FailedResults(rs)),
     total |-> Len(rs)]

\* What exec reported for the download tool, as an event of the stage
ExitEvent(stage, error) == IF error THEN stage \o ".exit1" ELSE stage \o ".exit0"

\* (update() calls dumpFiles without await and goes on to renameFiles)
DumpFilesNotAwaited == [pc |-> "readdir", started |-> <<"extract", "normalize">>]

\* await this.dumpFiles(): update() goes on when dumpFiles has returned
DumpFilesAwaited == [pc |-> "dump", started |-> <<"extract">>]

\* downloadFiles' callback for the index fetch, and update() up to the
\* await in downloadVPKFiles: the manifest is deleted, the index loaded,
\* the segments selected, their manifest written and the tool started
FetchIndexDone ==
    /\ UNCHANGED hostVars
    /\ pc = "fetchIndex"
    /\ \E error \in BOOLEAN :
          IF downloadFilesCallback(error) = "rejected"
          THEN /\ Reject("FetchFailed")
               /\ events' = events \o <<ExitEvent("fetchIndex", error),
                                        "fetchIndex.failed">>
               /\ manifestOps' = Append(manifestOps, "ended")
               /\ UNCHANGED <<vpkDir, required, calls, manifest, invocations>>
          ELSE IF downloadFilesCallback(error) = "pending"
          THEN /\ AwaitsForever
               /\ events' = Append(events, ExitEvent("fetchIndex", error))
               /\ manifestOps' = Append(manifestOps, "ended")
               /\ UNCHANGED <<vpkDir, required, calls, manifest, invocations>>
          ELSE \/ \* vpkDir.load() throws
                  /\ vpkDir' = NoVpk
                  /\ Reject("IndexUnreadable")
                  /\ manifest' = NoManifest
                  /\ manifestOps' = manifestOps \o <<"ended", "unlink">>
                  /\ events' = events \o <<ExitEvent("fetchIndex", error),
                                           "fetchIndex.done", "loadIndex",
                                           "loadIndex.failed">>
                  /\ UNCHANGED <<required, calls, invocations>>
               \/ \E idx \in PipelineIndexes :
                     LET requiredIndices == getRequiredVPKFiles(config, idx)
                     IN  /\ vpkDir' = idx
                         /\ required' = requiredIndices
                         /\ calls' = IF calls < MaxCalls THEN calls + 1 ELSE calls
                         /\ IF \E i \in 1..Len(requiredIndices) :
                                    PaddingThrows(requiredIndices[i])
                            THEN /\ Reject("RangeError")
                                 /\ manifest' = NoManifest
                                 /\ manifestOps' = manifestOps \o <<"ended", "unlink">>
                                 /\ events' = events \o
                                       <<ExitEvent("fetchIndex", error),
                                         "fetchIndex.done", "loadIndex",
                                         "loadIndex.done", "select", "select.done",
                                         "fetchSegments.failed">>
                                 /\ UNCHANGED invocations
                            ELSE /\ pc' = "fetchSegments"
                                 /\ UNCHANGED <<failure, settled, timer>>
                                 /\ manifest' = Written(SegmentManifest(requiredIndices))
                                 /\ manifestOps' = manifestOps \o <<"ended", "unlink">>
                                                       \o WriteThenInvoke
                                 /\ invocations' =
                                       Append(invocations, SegmentManifest(requiredIndices))
                                 /\ events' = events \o
                                       <<ExitEvent("fetchIndex", error),
                                         "fetchIndex.done", "loadIndex",
                                         "loadIndex.done", "select", "select.done",
                                         "fetchSegments">>
    /\ UNCHANGED <<config, updateInterval, tools, dumpVars, renameVars, started,
                   loadAttempt, responses>>

\* downloadFiles' callback for the segment fetch, and update() up to the
\* await in dumpFiles: the manifest is deleted and one extraction per path
\* is started
FetchSegmentsDone ==
    /\ UNCHANGED hostVars
    /\ pc = "fetchSegments"
    /\ \E error \in BOOLEAN :
          IF downloadFilesCallback(error) = "rejected"
          THEN /\ Reject("FetchFailed")
               /\ events' = events \o <<ExitEvent("fetchSegments", error),
                                        "fetchSegments.failed">>
               /\ manifestOps' = Append(manifestOps, "ended")
               /\ UNCHANGED <<manifest, dumpVars>>
          ELSE IF downloadFilesCallback(error) = "pending"
          THEN /\ AwaitsForever
               /\ events' = Append(events, ExitEvent("fetchSegments", error))
               /\ manifestOps' = Append(manifestOps, "ended")
               /\ UNCHANGED <<manifest, dumpVars>>
          ELSE /\ manifest' = NoManifest
               /\ manifestOps' = manifestOps \o <<"ended", "unlink">>
               /\ pathsToDump' = PathsToDump(config, vpkDir)
               /\ results' = [i \in 1..Len(PathsToDump(config, vpkDir)) |-> Pending]
               /\ outcomes' = [i \in 1..Len(PathsToDump(config, vpkDir)) |-> NotRun]
               /\ dumpLog' = [i \in 1..Len(PathsToDump(config, vpkDir)) |-> NoLog]
               /\ report' = report
               /\ pc' = DumpFilesAwaited.pc
               /\ UNCHANGED <<failure, settled, timer>>
               /\ events' = events \o <<ExitEvent("fetchSegments", error),
                                        "fetchSegments.done">>
                                   \o DumpFilesAwaited.started
    /\ UNCHANGED <<selVars, tools, invocations, renameVars, started, loadAttempt,
                   responses>>

\* The callback of one extraction; with the last of them Promise.all is
\* fulfilled, dumpFiles logs its counts and returns, and renameFiles
\* starts to read the directory
DumpDone ==
    /\ UNCHANGED hostVars
    /\ pc = "dump"
    /\ \E i \in 1..Len(pathsToDump), outcome \in ExecOutcomes :
          /\ results[i].state = "pending"
          /\ LET rs == [results EXCEPT ![i] = ExecDumpCallback(pathsToDump[i], outcome)]
             IN  /\ results' = rs
                 /\ outcomes' = [outcomes EXCEPT ![i] = outcome]
                 /\ dumpLog' = [dumpLog EXCEPT ![i] = ExecDumpLog(pathsToDump[i], outcome)]
                 /\ IF PromiseAllResolved(rs)
                    THEN /\ report' = ReportOf(rs)
                         /\ pc' = "readdir"
                         /\ events' = events \o <<"extract.done", "normalize">>
                    ELSE UNCHANGED <<report, pc, events>>
    /\ UNCHANGED <<selVars, tools, manifest, invocations, failure, pathsToDump,
                   renameVars, schedVars, logVars>>

\* update() after renameFiles has returned: process.exit(0)
Finish ==
    /\ pc' = "exited"
    /\ events' = events \o <<"normalize.done", "exit">>

\* The trees the extraction may leave below config.directory
PipelineTrees ==
    { TreeOf({}),
      TreeOf({ Join(<<"data">>, <<"a", "_png", ".png">>) }),
      TreeOf({ Join(<<"data">>, <<"a", ".png">>),
               Join(<<"data", "/", "sub">>, <<"a", "_png", "_png", ".png">>) }) }

\* renameFiles after readdir has resolved to the listing l of the tree t:
\* the loop runs up to the first rename it awaits
ReaddirResolved(t, l) ==
    /\ tree' = t
    /\ before' = t
    /\ listing' = l
    /\ pos' = NextMarked(l, 1)
    /\ UNCHANGED <<renamed, renameFailed>>

\* renameFiles after the rename of listing[pos] has resolved: the loop
\* runs on to the next rename it awaits
RenameResolved ==
    /\ tree' = Rename(tree, OldPath(listing[pos]), NewPath(listing[pos]))
    /\ renamed' = renamed + 1
    /\ pos' = NextMarked(listing, pos + 1)
    /\ UNCHANGED <<before, listing, renameFailed>>

\* renameFiles after readdir or a rename has rejected: the catch block
\* logs the error
RenameFilesCaught ==
    /\ renameFailed' = TRUE
    /\ UNCHANGED <<renamed, tree, before, listing, pos>>

\* renameFiles returns, leaving the tree t
RenameFilesReturns(t) ==
    /\ runs' = runs + 1
    /\ afterFirst' = IF runs = 0 THEN t ELSE afterFirst

\* (renameFiles without its catch: the error rejects its promise)
renameFilesUncaught(rejected) ==
    IF rejected THEN "rejected" ELSE "fulfilled"

\* renameFiles: how its promise settles; the try block holds readdir and
\* the loop, and the catch block logs and does not rethrow
renameFilesSettles(rejected) == "fulfilled"

\* update() after readdir or a rename has rejected
RenameErrorDone ==
    /\ RenameFilesCaught
    /\ IF renameFilesSettles(TRUE) = "fulfilled"
       THEN RenameFilesReturns(tree) /\ Finish
            /\ UNCHANGED <<failure, settled, timer>>
       ELSE Reject("NormalizationFailed")
            /\ events' = Append(events, "normalize.failed")
            /\ UNCHANGED <<runs, afterFirst>>

\* readdir settles: an error is caught and logged; otherwise the loop
\* starts, and update() goes on when the loop has run to its end
ReaddirDone ==
    /\ UNCHANGED hostVars
    /\ pc = "readdir"
    /\ \/ RenameErrorDone
       \/ \E t \in PipelineTrees : \E l \in Listings(t) :
             /\ ReaddirResolved(t, l)
             /\ IF NextMarked(l, 1) > Len(l)
                THEN RenameFilesReturns(t) /\ Finish
                ELSE pc' = "rename" /\ UNCHANGED <<events, runs, afterFirst>>
             /\ UNCHANGED <<failure, settled, timer>>
    /\ UNCHANGED <<selVars, tools, manifest, invocations, dumpVars, started,
                   loadAttempt, logVars>>

\* rename settles: an error is caught and logged and ends the loop;
\* otherwise the loop goes on to the next "_png.png" file
RenameDone ==
    /\ UNCHANGED hostVars
    /\ pc = "rename"
    /\ \/ RenameErrorDone
       \/ /\ ~RenameRejects(tree, OldPath(listing[pos]))
          /\ RenameResolved
          /\ IF NextMarked(listing, pos + 1) > Len(listing)
             THEN RenameFilesReturns(tree') /\ Finish
             ELSE UNCHANGED <<pc, events, runs, afterFirst>>
          /\ UNCHANGED <<failure, settled, timer>>
    /\ UNCHANGED <<selVars, tools, manifest, invocations, dumpVars, started,
                   loadAttempt, logVars>>

PipeInit ==
    /\ host = BuildHost
    /\ config \in PipelineConfigs
    /\ updateInterval \in UpdateIntervals
    /\ vpkDir = NoVpk
    /\ tools \in [s2v : BOOLEAN, dd : BOOLEAN]
    /\ Constructed

Next ==
    \/ updateLoop
    \/ TagResponse
    \/ AssetResponse
    \/ FetchIndexDone
    \/ FetchSegmentsDone
    \/ DumpDone
    \/ ReaddirDone
    \/ RenameDone

Spec == PipeInit /\ [][Next]_vars

\* Every request and every external invocation gets its answer: the
\* callback of each pending one is called in the end
Answered ==
    /\ WF_vars(TagResponse)
    /\ WF_vars(AssetResponse)
    /\ WF_vars(FetchIndexDone)
    /\ WF_vars(FetchSegmentsDone)
    /\ WF_vars(DumpDone)
    /\ WF_vars(ReaddirDone)
    /\ WF_vars(RenameDone)

FairSpec == PipeInit /\ [][Next]_vars /\ Answered

(***************************************************************************)
(* The acquisition of the tools on every host: the process is started on  *)
(* a host and runs until the tools are there or update() has rejected.     *)
(***************************************************************************)
PlatformInit ==
    /\ host \in Hosts
    /\ config = DEFAULT_CONFIG
    /\ updateInterval \in UpdateIntervals
    /\ vpkDir = NoVpk
    /\ tools \in [s2v : BOOLEAN, dd : BOOLEAN]
    /\ Constructed

PlatformNext == updateLoop \/ TagResponse \/ AssetResponse

PlatformSpec == PlatformInit /\ [][PlatformNext]_vars

(***************************************************************************)
(* renameFiles on its own: it is run on a tree, and run again on the tree  *)
(* it left.                                                                *)
(***************************************************************************)
\* The trees renameFiles is run on
Trees ==
    { TreeOf(ps) : ps \in { qs \in SUBSET TreePaths : Cardinality(qs) <= MaxTreeFiles } }

RenameInit ==
    /\ host = BuildHost
    /\ platform = Unset
    /\ toolOps = <<>>
    /\ config = DEFAULT_CONFIG
    /\ updateInterval = 0
    /\ vpkDir = NoVpk
    /\ tools = [s2v |-> TRUE, dd |-> TRUE]
    /\ required = Unset
    /\ calls = 0
    /\ pc = "readdir"
    /\ manifest = NoManifest
    /\ invocations = <<>>
    /\ events = <<>>
    /\ failure = "none"
    /\ pathsToDump = <<>>
    /\ outcomes = <<>>
    /\ results = <<>>
    /\ report = NoReport
    /\ dumpLog = <<>>
    /\ renamed = 0
    /\ tree \in Trees
    /\ before = tree
    /\ afterFirst = tree
    /\ listing = <<>>
    /\ pos = 0
    /\ runs = 0
    /\ renameFailed = FALSE
    /\ started = 0
    /\ settled = 0
    /\ timer = "none"
    /\ loadAttempt = "none"
    /\ responses = <<>>
    /\ manifestOps = <<>>

\* readdir settles, and the loop starts
RenameFilesReaddir ==
    /\ UNCHANGED hostVars
    /\ pc = "readdir"
    /\ \/ RenameFilesCaught /\ RenameFilesReturns(tree) /\ pc' = "returned"
       \/ \E l \in Listings(tree) :
             /\ ReaddirResolved(tree, l)
             /\ IF NextMarked(l, 1) > Len(l)
                THEN RenameFilesReturns(tree) /\ pc' = "returned"
                ELSE pc' = "rename" /\ UNCHANGED <<runs, afterFirst>>
    /\ UNCHANGED <<selVars, tools, manifest, invocations, events, failure,
                   dumpVars, schedVars, logVars>>

\* rename settles, and the loop goes on
RenameFilesRename ==
    /\ UNCHANGED hostVars
    /\ pc = "rename"
    /\ \/ RenameFilesCaught /\ RenameFilesReturns(tree) /\ pc' = "returned"
       \/ /\ ~RenameRejects(tree, OldPath(listing[pos]))
          /\ RenameResolved
          /\ IF NextMarked(listing, pos + 1) > Len(listing)
             THEN RenameFilesReturns(tree') /\ pc' = "returned"
             ELSE UNCHANGED <<pc, runs, afterFirst>>
    /\ UNCHANGED <<selVars, tools, manifest, invocations, events, failure,
                   dumpVars, schedVars, logVars>>

\* renameFiles is called again, on the tree the run before it left
RenameFilesAgain ==
    /\ UNCHANGED hostVars
    /\ pc = "returned"
    /\ runs < MaxRuns
    /\ pc' = "readdir"
    /\ UNCHANGED <<selVars, tools, manifest, invocations, events, failure,
                   dumpVars, renameVars, schedVars, logVars>>

RenameNext == RenameFilesReaddir \/ RenameFilesRename \/ RenameFilesAgain

RenameSpec == RenameInit /\ [][RenameNext]_vars

(***************************************************************************)
(* The claims about renameFiles.                                           *)
(***************************************************************************)
\* The directory and the name of a file, and whether the name ends with
\* the marker "_png.png"
DirectoryOf(p) == SubSeq(p, 1, LastSlash(p) - 1)
NameOf(p) == SubSeq(p, LastSlash(p) + 1, Len(p))
HasMarker(p) ==
    Len(NameOf(p)) >= 2
        /\ NameOf(p)[Len(NameOf(p)) - 1] = "_png" /\ NameOf(p)[Len(NameOf(p))] = ".png"

\* The names with the marker and what they are normalized to, written out
NormalizedName(n) ==
    CASE n = <<"a", "_png", ".png">>         -> <<"a", ".png">>
      [] n = <<"a", "_png", "_png", ".png">> -> <<"a", "_png", ".png">>
      [] n = <<"_png", ".png">>              -> <<".png">>
      [] OTHER                               -> n

NormalizedPath(p) == DirectoryOf(p) \o <<"/">> \o NormalizedName(NameOf(p))

\* C11: renameFiles is idempotent: when no rename was rejected, the run
\* after the first leaves the file paths the first run left, and after a
\* run no file that renameFiles would rename remains.
C11_Idempotent ==
    (pc = "returned" /\ ~renameFailed) =>
        /\ DOMAIN tree = DOMAIN afterFirst
        /\ \A p \in DOMAIN tree : ~HasMarker(p)

\* Every file of the tree was in the tree before the run, in the same
\* directory, and a file that has changed its path had the marker: its
\* name is normalized, once or (the loop meeting it again under its new
\* name) twice
FilesStayInDirectory ==
    \A p \in DOMAIN tree :
        \E q \in DOMAIN before :
            /\ before[q] = tree[p]
            /\ DirectoryOf(q) = DirectoryOf(p)
            /\ p # q =>
                  /\ HasMarker(q)
                  /\ p \in {NormalizedPath(q), NormalizedPath(NormalizedPath(q))}

NoMarkerNoChange ==
    (\A p \in DOMAIN before : ~HasMarker(p)) => tree = before

\* C12 as claimed: a file without the marker keeps its path and is neither
\* renamed, replaced nor removed; a renamed file stays in its directory;
\* on a tree without marker files nothing changes.
C12_UnmarkedFilesUntouched ==
    /\ \A p \in DOMAIN before :
          ~HasMarker(p) => p \in DOMAIN tree /\ tree[p] = before[p]
    /\ FilesStayInDirectory
    /\ NoMarkerNoChange

\* C12, amended: a file without the marker keeps its path and is neither
\* renamed nor removed, and it holds what it held unless a file with the
\* marker of its directory is normalized to its name: that file replaces
\* it.  A renamed file stays in its directory; on a tree without marker
\* files nothing changes.
C12_OnlyMarkedFilesRenamed ==
    /\ \A p \in DOMAIN before :
          ~HasMarker(p) =>
              /\ p \in DOMAIN tree
              /\ \/ tree[p] = before[p]
                 \/ \E q \in DOMAIN before :
                       /\ HasMarker(q)
                       /\ NormalizedPath(q) = p
                       /\ \E r \in DOMAIN before :
                             /\ HasMarker(r)
                             /\ DirectoryOf(r) = DirectoryOf(p)
                             /\ tree[p] = before[r]
    /\ FilesStayInDirectory
    /\ NoMarkerNoChange

\* C12's case: a run has renamed a file with the marker of the directory
\* "sub" onto a file without it
C12_Witness ==
    /\ pc = "returned"
    /\ renamed > 0
    /\ \E p \in DOMAIN before :
          /\ ~HasMarker(p)
          /\ DirectoryOf(p) = <<"data", "/", "sub">>
          /\ tree[p] # before[p]

(***************************************************************************)
(* The claims about the cycle.                                             *)
(***************************************************************************)
\* A fetch call is under way: the download tool runs
Fetching == pc \in {"fetchIndex", "fetchSegments"}

\* C5: once a fetch call has returned, by success or by failure, the
\* manifest file does not exist: it exists only while the download tool
\* runs.
C5_ManifestGoneAfterFetch == ~Fetching => ~manifest.exists

\* The events of a cycle in which nothing fails
CycleOrder ==
    << "fetchIndex", "fetchIndex.exit0", "fetchIndex.done",
       "loadIndex", "loadIndex.done",
       "select", "select.done",
       "fetchSegments", "fetchSegments.exit0", "fetchSegments.done",
       "extract", "extract.done",
       "normalize", "normalize.done",
       "exit" >>

IsPrefix(s, t) == Len(s) <= Len(t) /\ SubSeq(t, 1, Len(s)) = s

\* C6: when the download tool exits non-zero the fetch fails at once:
\* update() rejects with nothing after the failed fetch, the tool is not
\* invoked again, and nothing of the later stages has happened.
C6_FetchFailureIsFatal ==
    \A i \in 1..Len(events) :
        /\ events[i] = "fetchIndex.exit1" =>
              /\ events = <<"fetchIndex", "fetchIndex.exit1", "fetchIndex.failed">>
              /\ pc = "failed" /\ failure = "FetchFailed"
              /\ Len(invocations) = 1
              /\ ~vpkDir.loaded /\ required = Unset
              /\ pathsToDump = <<>> /\ ~report.logged /\ renamed = 0
        /\ events[i] = "fetchSegments.exit1" =>
              /\ events = SubSeq(CycleOrder, 1, 8)
                             \o <<"fetchSegments.exit1", "fetchSegments.failed">>
              /\ pc = "failed" /\ failure = "FetchFailed"
              /\ Len(invocations) = 2
              /\ pathsToDump = <<>> /\ ~report.logged /\ renamed = 0

\* C6's case: the segment fetch has failed
C6_Witness ==
    /\ pc = "failed"
    /\ Len(events) > 1
    /\ events[Len(events) - 1] = "fetchSegments.exit1"

FailureEvents ==
    { "fetchIndex.exit1", "fetchIndex.failed", "loadIndex.failed",
      "fetchSegments.exit1", "fetchSegments.failed" }

\* C7: the stages start and end in the one order index fetch, index load,
\* selection, segment fetch, extraction, normalization, exit, each after
\* the end of the one before it; a failure ends the sequence.
C7_StagesInOrder ==
    \E n \in 0..Len(events) :
        /\ IsPrefix(SubSeq(events, 1, n), CycleOrder)
        /\ \A i \in (n + 1)..Len(events) : events[i] \in FailureEvents
        /\ Len(events) - n <= 2
        /\ Len(events) > n => pc = "failed"

\* C7's case: a cycle that ran through all its stages
C7_Witness == pc = "exited" /\ events = CycleOrder /\ renamed > 0

\* The invocations that exec reported an error for
RECURSIVE FailedInvocations(_)
FailedInvocations(i) ==
    IF i > Len(outcomes) THEN <<>>
    ELSE (IF outcomes[i].code # 0
          THEN << [path |-> pathsToDump[i],
                   error |-> ErrorMessage(pathsToDump[i], outcomes[i])] >>
          ELSE <<>>) \o FailedInvocations(i + 1)

\* C8: the batch report of a dump over N paths of which M invocations
\* failed holds one result per path, M of them failed, each with its path
\* and error text, and N - M succeeded.
C8_ReportCoversAllPaths ==
    report.logged =>
        /\ Len(results) = Len(pathsToDump)
        /\ \A i \in 1..Len(results) :
              results[i].state = "done" /\ results[i].path = pathsToDump[i]
        /\ report.total = Len(pathsToDump)
        /\ report.failed = FailedInvocations(1)
        /\ report.succeeded = Len(pathsToDump) - Len(FailedInvocations(1))

\* C8's case: three paths or more, one invocation failed, the others not
C8_Witness ==
    /\ report.logged
    /\ report.total >= 3
    /\ Len(report.failed) = 1
    /\ report.succeeded = report.total - 1

NormalizationStarted == \E i \in 1..Len(events) : events[i] = "normalize"

\* C9: a failed invocation ends neither its siblings nor the cycle: while
\* an invocation is pending the cycle waits in dumpFiles, unfailed;
\* normalization has started if and only if every invocation has run to
\* its end, whether or not some failed.
C9_FailureAbortsNothing ==
    pathsToDump # <<>> =>
        /\ failure = "none"
        /\ (\E i \in 1..Len(results) : results[i].state = "pending") => pc = "dump"
        /\ NormalizationStarted <=>
              \A i \in 1..Len(results) :
                  results[i].state = "done" /\ outcomes[i] # NotRun

\* C9's case: normalization goes on after a dump in which an invocation
\* failed and others succeeded
C9_Witness ==
    /\ pc = "rename"
    /\ \E i, j \in 1..Len(results) : ~results[i].success /\ results[j].success

\* C10 as claimed: an invocation that exits non-zero or writes to its
\* error stream is recorded as failed, with its path.
C10_StderrIsFailure ==
    \A i \in 1..Len(results) :
        (results[i].state = "done"
            /\ (outcomes[i].code # 0 \/ outcomes[i].stderrLen > 0)) =>
        (~results[i].success /\ results[i].path = pathsToDump[i])

\* C10, amended: an invocation is recorded as failed exactly when exec
\* reports an error (a non-zero exit), with its path and the whole error
\* message; one that exits zero and writes to its error stream is marked
\* succeeded, and its output is logged as a warning cut to 500 characters.
C10_FailedIffExecError ==
    \A i \in 1..Len(results) :
        results[i].state = "done" =>
            /\ results[i].path = pathsToDump[i]
            /\ results[i].success <=> outcomes[i].code = 0
            /\ ~results[i].success =>
                  results[i].error = ErrorMessage(pathsToDump[i], outcomes[i])
            /\ (outcomes[i].code = 0 /\ outcomes[i].stderrLen > 0) =>
                  dumpLog[i] = [level |-> "warn", path |-> pathsToDump[i],
                                stderrLen |-> Min(outcomes[i].stderrLen, 500)]

\* C10's case: an invocation that exited zero and wrote 1200 characters to
\* its error stream
C10_Witness ==
    /\ report.logged
    /\ \E i \in 1..Len(results) :
          /\ outcomes[i] = [code |-> 0, stderrLen |-> 1200]
          /\ results[i].success
          /\ dumpLog[i].stderrLen = 500

(***************************************************************************)
(* The claims about the scheduler.                                         *)
(***************************************************************************)
\* The calls of update() whose promise has not settled
InFlight == started - settled

\* C13: no two update cycles are in flight at once, in recurring and in
\* one-shot mode: update() is not called while the promise of an earlier
\* call has not settled.
C13_OneCycleAtATime == InFlight <= 1

\* C13's case: recurring mode, a cycle in flight in its extraction
C13_Witness ==
    /\ updateInterval > 0
    /\ InFlight = 1
    /\ pc = "dump"

CycleCompleted == \E i \in 1..Len(events) : events[i] = "normalize.done"

\* C14: when a cycle has completed with success, in recurring mode the
\* timer is armed and the process lives on for a further cycle, and in
\* one-shot mode the process has ended; the interval alone decides.
C14_SuccessReschedulesOrExits ==
    CycleCompleted =>
        IF updateInterval > 0
        THEN timer = "armed" /\ pc # "exited"
        ELSE pc = "exited"

\* C15: in recurring mode, once a cycle has failed (update() rejected) the
\* timer is not armed and no other cycle is started.
C15_NoRescheduleAfterFailure ==
    (updateInterval > 0 /\ failure # "none") =>
        /\ pc = "failed"
        /\ timer = "none"
        /\ started = 1 /\ settled = 1

\* C15's case: recurring mode, the segment fetch has failed
C15_Witness ==
    /\ updateInterval > 0
    /\ pc = "failed"
    /\ failure = "FetchFailed"
    /\ Len(invocations) = 2

\* C16: in recurring mode a fatal failure of the cycle does not end the
\* scheduling: the scheduler is idle with its timer armed for a new cycle
\* at the next tick.
C16_FailureKeepsScheduling ==
    (updateInterval > 0 /\ pc = "failed") => timer = "armed"

\* C17: in one-shot mode updateLoop first tries to load the stored index;
\* update() is called if and only if the load throws, and when the load
\* succeeds no tool is fetched, no manifest written, no tool invoked and
\* nothing extracted or renamed.
C17_OneShotLoadsFirst ==
    (updateInterval = 0 /\ pc # "constructed") =>
        /\ loadAttempt \in {"loaded", "threw"}
        /\ started = 1 <=> loadAttempt = "threw"
        /\ started = 0 <=> loadAttempt = "loaded"
        /\ loadAttempt = "loaded" =>
              /\ pc = "loaded"
              /\ vpkDir.loaded
              /\ responses = <<>>
              /\ manifestOps = <<>> /\ manifest = NoManifest
              /\ invocations = <<>>
              /\ events = <<>>
              /\ pathsToDump = <<>> /\ ~report.logged
              /\ listing = <<>> /\ renamed = 0

\* C17's case: one-shot mode, the stored index has been loaded
C17_Witness ==
    /\ updateInterval = 0
    /\ loadAttempt = "loaded"
    /\ Len(vpkDir.files) > 0
    /\ ~tools.s2v /\ ~tools.dd

\* The request i of getBinary was answered with a status that fails it
AcquisitionFailedAt(i) ==
    \/ responses[i].request = "tag" /\ responses[i].statusCode # 200
    \/ responses[i].request = "asset" /\ responses[i].statusCode \notin {200, 302}

\* C18: when the acquisition of a missing tool fails (a status other than
\* 200 from the release feed, or neither 200 nor 302 from the asset
\* download), the cycle is aborted there: no manifest has been written and
\* neither the download tool nor the extraction tool has been invoked.
C18_ToolFailureAbortsEarly ==
    \A i \in 1..Len(responses) :
        AcquisitionFailedAt(i) =>
            /\ i = Len(responses)
            /\ pc = "failed"
            /\ failure = (IF responses[i].request = "tag"
                          THEN "ToolResolutionFailed" ELSE "ToolDownloadFailed")
            /\ manifestOps = <<>> /\ manifest = NoManifest
            /\ invocations = <<>>
            /\ events = <<>>
            /\ pathsToDump = <<>>

\* C18's case: the first tool has been fetched, and the asset download of
\* the second is answered with 404
C18_Witness ==
    /\ Len(responses) = 4
    /\ responses[4] = [request |-> "asset", statusCode |-> 404]
    /\ tools.s2v /\ ~tools.dd
    /\ pc = "failed"

\* What a fetch call does with the manifest
FetchOps == <<"write", "invoke", "ended", "unlink">>

LastOp == IF manifestOps = <<>> THEN "none" ELSE manifestOps[Len(manifestOps)]

\* C19: within a fetch call the manifest is written before the download
\* tool is invoked, exists (with what was written) as long as the tool
\* runs and is deleted only after the tool has ended; the segment manifest
\* is written only after the index manifest has been deleted.
C19_ManifestOpsOrdered ==
    /\ IsPrefix(manifestOps, FetchOps \o FetchOps)
    /\ Fetching =>
          /\ LastOp = "invoke"
          /\ manifest.exists
          /\ manifest.lines = invocations[Len(invocations)]
    /\ manifest.exists <=> LastOp \in {"write", "invoke", "ended"}
    /\ Len(invocations) =
          Cardinality({ i \in 1..Len(manifestOps) : manifestOps[i] = "invoke" })

\* C19's case: the download tool runs on the segment manifest
C19_Witness ==
    /\ pc = "fetchSegments"
    /\ manifestOps = FetchOps \o <<"write", "invoke">>
    /\ manifest.lines # IndexManifest

\* The archive-relative paths of the segments, written out
ExpectedSegmentPath(id) ==
    CASE id = 2   -> <<"game\\csgo\\", "pak01_", "0", "0", "2", ".vpk">>
      [] id = 10  -> <<"game\\csgo\\", "pak01_", "0", "1", "0", ".vpk">>
      [] id = 100 -> <<"game\\csgo\\", "pak01_", "1", "0", "0", ".vpk">>

\* C20: a cycle that has succeeded has invoked the download tool twice:
\* the first manifest lists the index file alone, the second one path per
\* segment id that getRequiredVPKFiles returned for the index loaded in the
\* cycle, in the same ascending order.
C20_TwoInvocations ==
    pc = "exited" =>
        /\ Len(invocations) = 2
        /\ invocations[1] = << <<"game\\csgo\\", "pak01_dir.vpk">> >>
        /\ Range(required) = { SegmentOf(p) : p \in MatchingEntries }
        /\ \A i, j \in 1..Len(required) : i < j => required[i] < required[j]
        /\ Len(invocations[2]) = Len(required)
        /\ \A i \in 1..Len(required) :
              invocations[2][i] = ExpectedSegmentPath(required[i])

\* C20's case: a cycle has succeeded with two segments, fetched in
\* ascending order of their ids
C20_Witness ==
    /\ pc = "exited"
    /\ required = <<2, 10>>
    /\ Len(invocations[2]) = 2

(***************************************************************************)
(* The claims about what is extracted and fetched.                         *)
(***************************************************************************)
\* C21: the paths and prefixes handed to the extraction tool are pairwise
\* disjoint: none is a prefix of, or equal to, another, so that no two
\* invocations write the same output path.
C21_DumpPathsDisjoint ==
    \A i, j \in 1..Len(pathsToDump) :
        i # j => ~StartsWith(pathsToDump[i], pathsToDump[j])

SelectionDone == \E i \in 1..Len(events) : events[i] = "select.done"

\* The digits of an id, padded with zeros to three digits at least
PaddedDigits(id) ==
    IF id < 10 THEN <<"0", "0">> \o NumberToString(id)
    ELSE IF id < 100 THEN <<"0">> \o NumberToString(id)
    ELSE NumberToString(id)

\* C27: for every id that getRequiredVPKFiles returned, ids of four digits
\* and more among them, downloadVPKFiles raises no error and writes one
\* manifest line that names the segment file with the id padded to three
\* digits at least.
C27_EveryIdGetsALine ==
    SelectionDone =>
        /\ failure # "RangeError"
        /\ Len(invocations) = 2
        /\ Len(invocations[2]) = Len(required)
        /\ \A i \in 1..Len(required) :
              invocations[2][i] =
                  <<"game\\csgo\\", "pak01_">> \o PaddedDigits(required[i])
                      \o <<".vpk">>

\* The entries of the index that what dumpFiles hands to the extraction
\* tool covers: those below the directory of a category handed over, and
\* those that are a file handed over
CoveredByDump(p) ==
    LET paths == PathsToDump(config, vpkDir)
        n == Len(DumpDirs(config, neededDirectoriesKeys))
    IN  \/ \E i \in 1..n : StartsWith(p, paths[i])
        \/ \E i \in (n + 1)..Len(paths) : p = paths[i]

\* C28: every entry of the index that a path or prefix of dumpFiles covers
\* has its segment id in what getRequiredVPKFiles returns for the same
\* index and configuration.
C28_DumpedIsFetched ==
    required # Unset =>
        \A p \in Range(vpkDir.files) :
            CoveredByDump(p) => SegmentOf(p) \in Range(required)

\* C28's case: an entry below an enabled directory is covered, and an
\* entry of another segment is not covered and its segment not fetched
C28_Witness ==
    /\ required # Unset
    /\ \E p, q \in Range(vpkDir.files) :
          /\ CoveredByDump(p) /\ StartsWith(p, neededDirectories["graffiti"])
          /\ ~CoveredByDump(q) /\ SegmentOf(q) \notin Range(required)

\* The files with the marker that readdir has listed
MarkedInListing ==
    { i \in 1..Len(listing) :
        listing[i].isFile /\ HasMarker(listing[i].parentPath \o <<"/">> \o listing[i].name) }

\* C29: each file with the marker is handled on its own: when the rename
\* of one fails, every other file with the marker that the scan found is
\* renamed all the same.
C29_OtherFilesStillRenamed ==
    (pc = "returned" /\ runs = 1 /\ renameFailed /\ listing # <<>>) =>
        renamed >= Cardinality(MarkedInListing) - 1

(***************************************************************************)
(* The claims about the host and the tools.                                *)
(***************************************************************************)
\* The table of the names: what the host reports, and the name in the asset
PlatformTable == [win32 |-> "windows", darwin |-> "macos", linux |-> "linux"]
ArchitectureTable == [x64 |-> "x64", arm64 |-> "arm64", arm |-> "arm"]

InPlatformTable == host.platform \in DOMAIN PlatformTable
InArchitectureTable == host.arch \in DOMAIN ArchitectureTable

\* C22 (as stated): getPlatform returns "<os>-<arch>" when the platform and
\* the architecture of the host are both in the table, and
\* "unknown-unknown" for every pair that is not.
C22_UnknownUnknownOutsideTable ==
    platform # Unset =>
        platform = IF InPlatformTable /\ InArchitectureTable
                   THEN <<PlatformTable[host.platform], "-",
                          ArchitectureTable[host.arch]>>
                   ELSE <<"unknown", "-", "unknown">>

\* C22 (amended): getPlatform returns "<os>-<arch>" where each of the two
\* names is the one of the table when the host's value is in the table and
\* "unknown" when it is not, each independently of the other.
C22_NamesMappedIndependently ==
    platform # Unset =>
        /\ Len(platform) = 3
        /\ platform[2] = "-"
        /\ platform[1] = IF InPlatformTable THEN PlatformTable[host.platform]
                         ELSE "unknown"
        /\ platform[3] = IF InArchitectureTable THEN ArchitectureTable[host.arch]
                         ELSE "unknown"

\* C22's case: a host whose platform is in the table and whose architecture
\* is not
C22_Witness ==
    /\ host = [platform |-> "linux", arch |-> "ia32"]
    /\ platform = <<"linux", "-", "unknown">>

\* C23: getBinary marks the tool executable exactly when the host is not
\* Windows: each archive unpacked is followed by the chmod of its tool on
\* macOS and Linux, and by none on Windows.
C23_ChmodExactlyOffWindows ==
    \A i \in 1..Len(toolOps) :
        /\ toolOps[i].op = "extractAllTo" =>
              ((/\ i < Len(toolOps)
                /\ toolOps[i + 1] = [op |-> "chmodSync",
                                     file |-> IF toolOps[i].file = "cli"
                                              THEN "Source2Viewer-CLI"
                                              ELSE "DepotDownloader"])
               <=> host.platform # "win32")
        /\ toolOps[i].op = "chmodSync" => host.platform # "win32"

(***************************************************************************)
(* The claims about how a cycle ends.                                      *)
(***************************************************************************)
\* C24: an error during normalization, of the directory scan or of a
\* rename, never aborts the cycle: renameFiles returns normally and the
\* cycle reaches its successful end.
C24_RenameErrorNeverAborts ==
    renameFailed =>
        /\ pc = "exited"
        /\ failure = "none"
        /\ runs = 1
        /\ Len(events) >= 2
        /\ events[Len(events) - 1] = "normalize.done"
        /\ events[Len(events)] = "exit"

\* C24's case: a rename has rejected after readdir had listed the tree
C24_Witness ==
    /\ renameFailed
    /\ listing # <<>>
    /\ pos <= Len(listing)
    /\ pc = "exited"

CycleEnded == pc \in {"exited", "failed"}

\* The index a cycle works on is the one the cycle has fetched
IndexIsFresh ==
    (started > 0 /\ vpkDir.loaded) =>
        \E i, j \in 1..Len(events) :
            /\ i < j
            /\ events[i] = "fetchIndex.done"
            /\ events[j] = "loadIndex.done"

\* C25: when every request and every external invocation returns, every
\* cycle that has started ends, completed or failed: no stage waits on a
\* promise that is never settled; and the index a cycle loads is the one it
\* has fetched, never an earlier one.
C25_EveryCycleEnds ==
    /\ (started > 0) ~> CycleEnded
    /\ []IndexIsFresh

\* C25's case: a cycle that went through every stage has ended
C25_Witness ==
    /\ started = 1
    /\ pc = "exited"
    /\ vpkDir.loaded
    /\ ~renameFailed
    /\ renamed > 0

(***************************************************************************)
(* The order of the ids in the JavaScript variant.                         *)
(***************************************************************************)
\* C26: index.js's getRequiredVPKFiles returns the ids in ascending order
\* too, for every set of ids, whatever its comparator (a, b) => a < b.
C26_JsAscending ==
    required # Unset =>
        \A i \in 1..(Len(required) - 1) : required[i] < required[i + 1]

====
